---- MODULE Spec2Model ----
(***************************************************************************)
(* Builtin-library composition of the ispc compiler (src/src/builtins.cpp) *)
(* as a state machine: the target module is a set of function records, the *)
(* preservation marker llvm.compiler.used is a list of arrays of function  *)
(* names, and every call made by LinkStandardLibraries is one step.        *)
(***************************************************************************)
EXTENDS Integers, Sequences, FiniteSets, TLC

(***************************************************************************)
(* Bounds of the model.                                                    *)
(***************************************************************************)
\* the largest number of distinct callees of the user's exported function
MaxCalls == 1
\* the largest number of library merges that report an error in one run
MaxErrors == 1
\* the largest number of parameters of an intrinsic handed to
\* CreateISPCSymbolForLLVMIntrinsic
MaxParams == 2
\* the largest number of diagnostics CreateISPCSymbolForLLVMIntrinsic reports
MaxDiagnostics == 2

MaxSymbolCalls == 3

(***************************************************************************)
(* Names.                                                                  *)
(***************************************************************************)
StartsWith(name, prefix) ==
    /\ Len(name) >= Len(prefix)
    /\ SubSeq(name, 1, Len(prefix)) = prefix

lStartsWithLLVM(name) == StartsWith(name, "llvm.")

llvm_x86 == "llvm.x86."

ISAVariants == {"sse4", "avx2"}

GetTargetSuffix(isa) == "_" \o isa

(***************************************************************************)
(* The preservation registry: ordered groups of names kept or dropped      *)
(* together, and names kept unconditionally.                               *)
(***************************************************************************)
persistentGroups ==
    << <<"__masked_load_32", "__masked_store_32">>,
       <<"__pseudo_gather32", "__gather32">> >>

persistentFuncs == <<"__terminate_now">>

Range(s) == {s[i] : i \in DOMAIN s}

GroupNames == UNION {Range(persistentGroups[i]) : i \in DOMAIN persistentGroups}

(***************************************************************************)
(* The backend's intrinsic table: identifier (0: none) and canonical       *)
(* parameter count of each name.                                           *)
(***************************************************************************)
getIntrinsicID(name) ==
    CASE name = "llvm.x86.maskload" -> 1
      [] name = "llvm.sqrt"         -> 2
      [] OTHER                      -> 0

IntrinsicGetType(id) ==
    CASE id = 1 -> 2
      [] id = 2 -> 1
      [] OTHER  -> 0

(***************************************************************************)
(* Functions of an IR module.                                              *)
(***************************************************************************)
Def(n, orig, cs) ==
    [name |-> n, base |-> n, decl |-> FALSE, linkage |-> "external",
     origin |-> orig, callees |-> cs, nparams |-> 0]

Decl(n, orig, np) ==
    [name |-> n, base |-> n, decl |-> TRUE, linkage |-> "external",
     origin |-> orig, callees |-> {}, nparams |-> np]

Names(M) == {f.name : f \in M}

Has(M, n) == \E f \in M : f.name = n

Defines(M, n) == \E f \in M : f.name = n /\ ~f.decl

Declares(M, n) == \E f \in M : f.name = n /\ f.decl

\* occurrences of n in the arrays of the markers
RECURSIVE CountIn(_, _)
CountIn(arr, n) ==
    IF arr = <<>> THEN 0
    ELSE (IF Head(arr) = n THEN 1 ELSE 0) + CountIn(Tail(arr), n)

RECURSIVE MarkerUses(_, _)
MarkerUses(markers, n) ==
    IF markers = <<>> THEN 0
    ELSE CountIn(Head(markers), n) + MarkerUses(Tail(markers), n)

MarkerMembers(markers) == UNION {Range(markers[i]) : i \in DOMAIN markers}

\* llvm::Value::getNumUses: one use per referencing body, one per marker operand
getNumUses(M, markers, n) ==
    Cardinality({f \in M : ~f.decl /\ n \in f.callees}) + MarkerUses(markers, n)

(***************************************************************************)
(* The bitcode-merge primitive, llvm::Linker::linkModules with the flag    *)
(* LinkOnlyNeeded: a definition of the library is merged when the target   *)
(* module declares its name without defining it, or when a merged body     *)
(* refers to it and the target module does not define it; the declarations *)
(* the merged bodies refer to come along.                                  *)
(***************************************************************************)
RECURSIVE LinkClosure(_, _, _)
LinkClosure(bc, M, S) ==
    LET refs == UNION {f.callees : f \in {h \in bc : h.name \in S}}
        new  == {n \in refs : Defines(bc, n) /\ ~Defines(M, n)} \ S
    IN  IF new = {} THEN S ELSE LinkClosure(bc, M, S \cup new)

linkModules(M, bc) ==
    LET seeds  == {f.name : f \in {h \in bc : ~h.decl /\ Declares(M, h.name)}}
        S      == LinkClosure(bc, M, seeds)
        linked == {f \in bc : f.name \in S}
        refs   == UNION {f.callees : f \in linked}
        decls  == {f \in bc : f.decl /\ f.name \in refs /\ ~Has(M, f.name)}
    IN  {f \in M : f.name \notin S} \cup linked \cup decls

\* the declarations of the library without a use, inserted one by one
MovedByHand(bc, M) ==
    {f \in bc : f.decl /\ getNumUses(bc, <<>>, f.name) = 0 /\ ~Has(M, f.name)}

\* lAddBitcodeToModule on a library module that is there; linked: whether
\* linkModules merged the library (it reports an error otherwise)
lAddBitcodeToModule(bc, M, linked) ==
    LET M1 == M \cup MovedByHand(bc, M)
    IN  IF linked THEN linkModules(M1, bc) ELSE M1

\* a faulty variant: only the functions the library defines are declared
lAddDeclarationsToModule_DefinedOnly(bc, M) ==
    M \cup {Decl(f.name, f.origin, f.nparams) :
                f \in {h \in bc : ~h.decl /\ ~Has(M, h.name)}}

\* every function of the library gets a declaration unless the name is taken
lAddDeclarationsToModule(bc, M) ==
    M \cup {Decl(f.name, f.origin, f.nparams) : f \in {h \in bc : ~Has(M, h.name)}}

\* a faulty variant: the test for a body is inverted
lSetAsInternal_Declarations(M, names) ==
    {IF f.decl /\ f.name \in names
        THEN [f EXCEPT !.linkage = "internal"]
        ELSE f : f \in M}

\* a faulty variant: the name set is not looked at
lSetAsInternal_AnyName(M, names) ==
    {IF ~f.decl THEN [f EXCEPT !.linkage = "internal"] ELSE f : f \in M}

lSetAsInternal(M, names) ==
    {IF ~f.decl /\ f.name \in names
        THEN [f EXCEPT !.linkage = "internal"]
        ELSE f : f \in M}

(***************************************************************************)
(* lRemoveUnused: llvm::GlobalDCEPass.  Definitions with external linkage  *)
(* and the operands of the markers are live, and so is what a live body    *)
(* refers to; every other function, declarations included, is erased.      *)
(***************************************************************************)
RECURSIVE Reach(_, _)
Reach(M, S) ==
    LET refs == UNION {f.callees : f \in {h \in M : ~h.decl /\ h.name \in S}}
        new  == (refs \cap Names(M)) \ S
    IN  IF new = {} THEN S ELSE Reach(M, S \cup new)

Alive(M, markers) ==
    Reach(M, {f.name : f \in {h \in M : ~h.decl /\ h.linkage = "external"}}
             \cup (MarkerMembers(markers) \cap Names(M)))

lRemoveUnused(M, markers) == {f \in M : f.name \in Alive(M, markers)}

(***************************************************************************)
(* The preservation marker.                                                *)
(***************************************************************************)
\* the pointer to the function of that name, or nothing when there is none
lFuncAsConstInt8Ptr(M, name) == IF Has(M, name) THEN <<name>> ELSE <<>>

RECURSIVE PtrsOf(_, _)
PtrsOf(M, names) ==
    IF names = <<>> THEN <<>>
    ELSE lFuncAsConstInt8Ptr(M, Head(names)) \o PtrsOf(M, Tail(names))

\* a new global named llvm.compiler.used; the name of an existing one stays
\* with it, the new global is then renamed
lCreateLLVMUsed(markers, ConstPtrs) == Append(markers, ConstPtrs)

lUpdateLLVMUsed(markers, newElements) ==
    lCreateLLVMUsed(<<>>, newElements) \o Tail(markers)

\* a faulty variant: only the first member of the group is looked at
isGroupUsed_FirstMember(M, markers, members) ==
    /\ Has(M, members[1])
    /\ getNumUses(M, markers, members[1]) > 0

isGroupUsed(M, markers, members) ==
    \E i \in DOMAIN members :
        /\ Has(M, members[i])
        /\ getNumUses(M, markers, members[i]) > 0

RECURSIVE AnchorGroups(_, _, _)
AnchorGroups(M, markers, groups) ==
    IF groups = <<>> THEN <<>>
    ELSE (IF isGroupUsed(M, markers, Head(groups))
             THEN PtrsOf(M, Head(groups)) ELSE <<>>)
         \o AnchorGroups(M, markers, Tail(groups))

AnchorPtrs(M, markers) ==
    AnchorGroups(M, markers, persistentGroups) \o PtrsOf(M, persistentFuncs)

lAddPersistentToLLVMUsed(M, markers) ==
    IF AnchorPtrs(M, markers) = <<>> THEN markers
    ELSE lCreateLLVMUsed(markers, AnchorPtrs(M, markers))

\* the operands of the marker that have a use besides the marker's own and
\* are no function: the test that the value is a function fails for them
NotAFunction(M, markers) ==
    {n \in Range(Head(markers)) : getNumUses(M, markers, n) > 1 /\ ~Has(M, n)}

\* a faulty variant: the marker's own use counts as a use
lExtractUsedFunctions_CountsMarker(M, markers) ==
    {n \in Range(Head(markers)) : getNumUses(M, markers, n) > 0}

\* the operands of the marker with a use besides the marker's own
lExtractUsedFunctions(M, markers) ==
    {n \in Range(Head(markers)) : getNumUses(M, markers, n) > 1}

\* a faulty variant: a group counts as used when all its members are
lFindUsedPersistentGroups_AllMembers(M, usedFunctions) ==
    {i \in DOMAIN persistentGroups :
        \A k \in DOMAIN persistentGroups[i] :
            /\ Has(M, persistentGroups[i][k])
            /\ persistentGroups[i][k] \in usedFunctions}

lFindUsedPersistentGroups(M, usedFunctions) ==
    {i \in DOMAIN persistentGroups :
        \E k \in DOMAIN persistentGroups[i] :
            /\ Has(M, persistentGroups[i][k])
            /\ persistentGroups[i][k] \in usedFunctions}

RECURSIVE CollectGroups(_, _, _)
CollectGroups(M, usedPersistentGroups, i) ==
    IF i > Len(persistentGroups) THEN <<>>
    ELSE (IF i \in usedPersistentGroups
             THEN PtrsOf(M, persistentGroups[i]) ELSE <<>>)
         \o CollectGroups(M, usedPersistentGroups, i + 1)

\* a faulty variant: the persistent functions are left out of the rebuilt marker
lCollectPreservedFunctions_GroupsOnly(M, usedPersistentGroups) ==
    CollectGroups(M, usedPersistentGroups, 1)

lCollectPreservedFunctions(M, usedPersistentGroups) ==
    CollectGroups(M, usedPersistentGroups, 1) \o PtrsOf(M, persistentFuncs)

\* a faulty variant: a module without a marker is taken as one with an
\* empty marker, which is rebuilt with the persistent functions
lRemoveUnusedPersistentFunctions_Unguarded(M, markers) ==
    LET usedFunctions == IF markers = <<>> THEN {}
                         ELSE lExtractUsedFunctions(M, markers)
        usedGroups    == lFindUsedPersistentGroups(M, usedFunctions)
        newElements   == lCollectPreservedFunctions(M, usedGroups)
        newMarkers    == IF markers = <<>> THEN lCreateLLVMUsed(<<>>, newElements)
                         ELSE lUpdateLLVMUsed(markers, newElements)
    IN  [module  |-> lRemoveUnused(M, newMarkers),
         markers |-> newMarkers]

\* the marker rebuilt from the groups in use, and the module pruned again
lRemoveUnusedPersistentFunctions(M, markers) ==
    IF markers = <<>> THEN [module |-> M, markers |-> markers]
    ELSE LET usedFunctions == lExtractUsedFunctions(M, markers)
             usedGroups    == lFindUsedPersistentGroups(M, usedFunctions)
             newElements   == lCollectPreservedFunctions(M, usedGroups)
             newMarkers    == lUpdateLLVMUsed(markers, newElements)
         IN  [module  |-> lRemoveUnused(M, newMarkers),
              markers |-> newMarkers]

(***************************************************************************)
(* lCheckModuleIntrinsics: a function with a reserved name in the x86      *)
(* namespace must be known to the backend and carry its canonical type.    *)
(***************************************************************************)
isIntrinsic(f) == StartsWith(f.name, "llvm.")

\* a faulty variant: every intrinsic is checked, in whatever namespace
CheckedIntrinsic_AnyNamespace(f) == isIntrinsic(f)

CheckedIntrinsic(f) == isIntrinsic(f) /\ StartsWith(f.name, llvm_x86)

\* a faulty variant: the type of a known intrinsic is not compared
IntrinsicIsFine_IdOnly(f) == getIntrinsicID(f.name) # 0

\* the pointer types of line 219 are compared by the function types they
\* point to
IntrinsicIsFine(f) ==
    /\ getIntrinsicID(f.name) # 0
    /\ f.nparams = IntrinsicGetType(getIntrinsicID(f.name))

lCheckModuleIntrinsics(M) ==
    \A f \in M : CheckedIntrinsic(f) => IntrinsicIsFine(f)

(***************************************************************************)
(* The precompiled libraries the registry hands out.                       *)
(***************************************************************************)
StdlibVariants == {"calls_builtins", "declares_builtins"}

TargetVariants == {"matching", "wrong_arity", "unknown_id"}

StdlibLib(v) ==
    IF v = "calls_builtins"
    THEN {Def("f", "stdlib", {"__masked_store_32", "__do_print"}),
          Def("__terminate_now", "stdlib", {"__masked_load_32"}),
          Decl("__masked_load_32", "stdlib", 0),
          Decl("__masked_store_32", "stdlib", 0),
          Decl("__do_print", "stdlib", 0),
          Decl("__pseudo_gather32", "stdlib", 0),
          Decl("__gather32", "stdlib", 0)}
    ELSE {Def("f", "stdlib", {"__do_print"}),
          Decl("__terminate_now", "stdlib", 0),
          Decl("__masked_load_32", "stdlib", 0),
          Decl("__masked_store_32", "stdlib", 0),
          Decl("__do_print", "stdlib", 0)}

CommonLib ==
    {Def("__do_print", "common", {"puts"}),
     Def("__num_cores", "common", {}),
     Decl("puts", "common", 0)}

TargetLib(v) ==
    {Def("__masked_load_32", "target", {"llvm.x86.maskload"}),
     Def("__masked_store_32", "target",
         IF v = "unknown_id" THEN {"__tgt_helper", "llvm.x86.unknown"}
                             ELSE {"__tgt_helper"}),
     Def("__gather32", "target", {"__masked_load_32", "llvm.sqrt"}),
     Def("__tgt_helper", "target", {}),
     Def("__terminate_now", "target", {}),
     Decl("__pseudo_gather32", "target", 0),
     Decl("llvm.x86.maskload", "target", IF v = "wrong_arity" THEN 3 ELSE 2),
     Decl("llvm.sqrt", "target", IF v = "unknown_id" THEN 2 ELSE 1)}
    \cup (IF v = "unknown_id" THEN {Decl("llvm.x86.unknown", "target", 1)} ELSE {})

DispatchLib ==
    {Def("__get_system_isa", "dispatch", {}),
     Def("__set_system_isa", "dispatch", {"__get_system_isa", "abort"}),
     Decl("abort", "dispatch", 0)}

(***************************************************************************)
(* The library instances of the registry: of each, the target triple, the  *)
(* data layout and the function names of its bitcode.  getLLVMModule hands *)
(* a stage the module it works on; a stage that changes that module        *)
(* changes the instance when the two are one object.                       *)
(***************************************************************************)
LibraryKinds == {"stdlib", "common", "target", "dispatch"}

LibraryTriple == "i386-apple-macosx10.7.0"

LibraryDataLayout == "e-p:32:32"

ModuleTriple == "x86_64-apple-darwin11.0.0"

ModuleDataLayout == "e-m:o-i64:64"

LibraryInstance(fns) ==
    [triple |-> LibraryTriple, dataLayout |-> LibraryDataLayout,
     names |-> Names(fns)]

\* a faulty variant: the module handed out is the instance itself
getLLVMModule_Shared(lib) ==
    [shared |-> TRUE, triple |-> lib.triple, dataLayout |-> lib.dataLayout,
     names |-> lib.names]

\* a module of its own, read from the bitcode of the instance
getLLVMModule(lib) ==
    [shared |-> FALSE, triple |-> lib.triple, dataLayout |-> lib.dataLayout,
     names |-> lib.names]

\* the instances after a stage has changed the module bc it was handed
Held(libs, kind, bc) ==
    IF bc.shared
    THEN [libs EXCEPT ![kind] = [triple |-> bc.triple,
                                 dataLayout |-> bc.dataLayout,
                                 names |-> bc.names]]
    ELSE libs

(***************************************************************************)
(* The module the front end hands over: an exported function, a static     *)
(* one, and a declaration of every other name they refer to.  In a         *)
(* multi-target compilation the names of source-language functions carry   *)
(* the suffix of the ISA variant.                                          *)
(***************************************************************************)
UserRefs == {"__masked_load_32", "__pseudo_gather32", "__terminate_now", "f"}

Mangled(n, sfx) == IF n \in {"f", "kernel"} THEN n \o sfx ELSE n

UserModule(calls, hcalls, sfx) ==
    {[Def(Mangled("kernel", sfx), "user", {Mangled(n, sfx) : n \in calls})
         EXCEPT !.base = "kernel"],
     [Def("helper", "user", {Mangled(n, sfx) : n \in hcalls})
         EXCEPT !.linkage = "internal"]}
    \cup {[Decl(Mangled(n, sfx), "user", 0) EXCEPT !.base = n] :
             n \in (calls \cup hcalls) \ {"helper"}}

UserGlobals ==
    {[name |-> "__math_lib", linkage |-> "external"],
     [name |-> "__memory_alignment", linkage |-> "external"],
     [name |-> "programCount", linkage |-> "external"]}

(***************************************************************************)
(* The state.                                                              *)
(***************************************************************************)
VARIABLES
    pc,           \* the next call of LinkStandardLibraries, "done" or "aborted"
    module,       \* the functions of the target module
    markers,      \* the globals named llvm.compiler.used, the named one first
    globals,      \* the global variables of the target module
    trace,        \* the calls made so far, in order
    errors,       \* how often Error() was reported
    fatal,        \* why the process was aborted, or "none"
    noLibrary,    \* the call for which the registry had no library, or "none"
    atAnchor,     \* the names in the module when the anchor step ran
    debug_num,    \* the caller's stage counter
    dispatched,   \* whether LinkDispatcher has been called
    libraries,    \* the library instances the registry holds
    dumps,        \* what debugDumpModule has written, in order
    functions,    \* the name set handed to lSetAsInternal on its own
    symbolTable,  \* the symbols for intrinsics of the symbol table
    returned,     \* what CreateISPCSymbolForLLVMIntrinsic returned last
    diagnostics,  \* the messages given to Error() by it
    includeStdlib,            \* g->includeStdlib
    isMultiTargetCompilation, \* g->isMultiTargetCompilation
    isa,                      \* the ISA variant of g->target
    debug_stages,             \* g->debug_stages
    off_stages,               \* g->off_stages
    dumpFile,                 \* g->dumpFile
    dumpFilePath,             \* g->dumpFilePath
    stdlibVariant,            \* the standard library of the registry
    targetVariant,            \* the target builtins of the registry
    user                      \* the module as the front end handed it over

config == <<includeStdlib, isMultiTargetCompilation, isa, debug_stages,
            off_stages, dumpFile, dumpFilePath, stdlibVariant, targetVariant,
            user>>

unit == <<functions, symbolTable, returned, diagnostics>>

vars == <<pc, module, markers, globals, trace, errors, fatal, noLibrary,
          atAnchor, debug_num, dispatched, libraries, dumps, unit, config>>

TargetSuffix == IF isMultiTargetCompilation THEN GetTargetSuffix(isa) ELSE ""

CallSets(S, max) == {c \in SUBSET S : Cardinality(c) <= max}

\* the instances as the registry loaded them
Registry ==
    [k \in LibraryKinds |->
        LibraryInstance(CASE k = "stdlib" -> StdlibLib(stdlibVariant)
                          [] k = "common" -> CommonLib
                          [] k = "target" -> TargetLib(targetVariant)
                          [] k = "dispatch" -> DispatchLib)]

\* nothing has been called yet
NothingCalled ==
    /\ trace = <<>>
    /\ errors = 0
    /\ fatal = "none"
    /\ noLibrary = "none"
    /\ atAnchor = {}
    /\ debug_num = 0
    /\ dispatched = FALSE
    /\ dumps = <<>>

\* no stage is to be dumped
NoDebugStages ==
    /\ debug_stages = {}
    /\ off_stages = {}
    /\ dumpFile = FALSE
    /\ dumpFilePath = ""

\* the operations checked on their own have not been called
NoUnit ==
    /\ functions = {}
    /\ symbolTable = {}
    /\ returned = [func |-> "none", sym |-> "nullptr"]
    /\ diagnostics = <<>>

Init ==
    /\ includeStdlib \in BOOLEAN
    /\ isMultiTargetCompilation \in BOOLEAN
    /\ isa \in ISAVariants
    /\ isMultiTargetCompilation \/ isa = "avx2"
    /\ stdlibVariant \in StdlibVariants
    /\ targetVariant \in TargetVariants
    /\ \E calls \in CallSets(UserRefs \cup {"helper"}, MaxCalls) :
       \E hcalls \in CallSets(UserRefs, 1) :
            user = UserModule(calls, hcalls, TargetSuffix)
    /\ module = user
    /\ markers = <<>>
    /\ globals = UserGlobals
    /\ pc = "begin"
    /\ libraries = Registry
    /\ NothingCalled
    /\ NoDebugStages
    /\ NoUnit

(***************************************************************************)
(* Steps shared by the stages.                                             *)
(***************************************************************************)
Call(label, next) ==
    /\ pc' = next
    /\ trace' = Append(trace, label)

\* a faulty variant: the test of the library handle is left out, the call returns
MissingLibrary_Continues(label, next) ==
    /\ noLibrary' = label
    /\ Call(label, next)
    /\ UNCHANGED <<module, markers, globals, errors, fatal, atAnchor,
                   debug_num, dispatched, libraries, dumps, unit, config>>

\* the registry has no library: the test of the handle ends the process
MissingLibrary(label, next) ==
    /\ noLibrary' = label
    /\ pc' = "aborted"
    /\ trace' = Append(trace, label)
    /\ fatal' = "missing library"
    /\ UNCHANGED <<module, markers, globals, errors, atAnchor,
                   debug_num, dispatched, libraries, dumps, unit, config>>

\* a null library module is dereferenced before lAddBitcodeToModule tests it
NullDereference(label, next) ==
    /\ pc' = "aborted"
    /\ trace' = Append(trace, label)
    /\ fatal' = "null dereference"
    /\ UNCHANGED <<module, markers, globals, errors, noLibrary, atAnchor,
                   debug_num, dispatched, libraries, dumps, unit, config>>

(***************************************************************************)
(* lLinkStdlib.                                                            *)
(***************************************************************************)
\* a faulty variant: declarations are renamed as well
RenameForTarget_AlsoDeclarations(bc, sfx) ==
    LET renamed == {f.name : f \in {h \in bc : ~lStartsWithLLVM(h.name)}}
        R(n)    == IF n \in renamed THEN n \o sfx ELSE n
    IN  {[f EXCEPT !.name = R(f.name), !.callees = {R(c) : c \in f.callees}] :
            f \in bc}

RenameForTarget(bc, sfx) ==
    LET renamed == {f.name : f \in {h \in bc : ~h.decl /\ ~lStartsWithLLVM(h.name)}}
        R(n)    == IF n \in renamed THEN n \o sfx ELSE n
    IN  {[f EXCEPT !.name = R(f.name), !.callees = {R(c) : c \in f.callees}] :
            f \in bc}

stdlibBCModule ==
    IF isMultiTargetCompilation
    THEN RenameForTarget(StdlibLib(stdlibVariant), GetTargetSuffix(isa))
    ELSE StdlibLib(stdlibVariant)

lLinkStdlib(linked) ==
    /\ linked \/ errors < MaxErrors
    /\ module' = lSetAsInternal(lAddBitcodeToModule(stdlibBCModule, module, linked),
                                Names(stdlibBCModule))
    /\ errors' = IF linked THEN errors ELSE errors + 1
    /\ libraries' = Held(libraries, "stdlib",
                          [getLLVMModule(libraries["stdlib"])
                              EXCEPT !.names = Names(stdlibBCModule)])
    /\ Call("lLinkStdlib", "anchor")
    /\ UNCHANGED <<markers, globals, fatal, noLibrary, atAnchor, debug_num,
                   dispatched, dumps, unit, config>>

\* a faulty variant: the standard library is linked whatever includeStdlib says
LinkStdlib_Unconditional ==
    /\ pc = "begin"
    /\ \/ lLinkStdlib(TRUE)
       \/ lLinkStdlib(FALSE)
       \/ MissingLibrary("lLinkStdlib", "anchor")
       \/ NullDereference("lLinkStdlib", "anchor")

LinkStdlib ==
    /\ pc = "begin"
    /\ includeStdlib
    /\ \/ lLinkStdlib(TRUE)
       \/ lLinkStdlib(FALSE)
       \/ MissingLibrary("lLinkStdlib", "anchor")
       \/ NullDereference("lLinkStdlib", "anchor")

(***************************************************************************)
(* The anchor step, the prunes and the re-closure of the stdlib stage.     *)
(***************************************************************************)
Anchor ==
    /\ \/ pc = "anchor"
       \/ pc = "begin" /\ ~includeStdlib
    /\ markers' = lAddPersistentToLLVMUsed(module, markers)
    /\ atAnchor' = Names(module)
    /\ Call("lAddPersistentToLLVMUsed", IF includeStdlib THEN "prune_stdlib" ELSE "common")
    /\ UNCHANGED <<module, globals, errors, fatal, noLibrary, debug_num, dispatched, libraries, dumps, unit, config>>

Prune(at, next) ==
    /\ pc = at
    /\ module' = lRemoveUnused(module, markers)
    /\ Call("lRemoveUnused", next)
    /\ UNCHANGED <<markers, globals, errors, fatal, noLibrary, atAnchor, debug_num,
                   dispatched, libraries, dumps, unit, config>>

PruneStdlib == Prune("prune_stdlib", "reclose")

Reclose ==
    /\ pc = "reclose"
    /\ IF markers # <<>> /\ NotAFunction(module, markers) # {}
       THEN /\ pc' = "aborted"
            /\ trace' = Append(trace, "lRemoveUnusedPersistentFunctions")
            /\ fatal' = "marker operand"
            /\ UNCHANGED <<module, markers>>
       ELSE /\ module' = lRemoveUnusedPersistentFunctions(module, markers).module
            /\ markers' = lRemoveUnusedPersistentFunctions(module, markers).markers
            /\ Call("lRemoveUnusedPersistentFunctions", "dump_stdlib")
            /\ UNCHANGED fatal
    /\ UNCHANGED <<globals, errors, noLibrary, atAnchor, debug_num,
                   dispatched, libraries, dumps, unit, config>>

\* the stage is neither switched off nor left out of the stages to dump
IsDumped(stage) == stage \notin off_stages /\ stage \in debug_stages

DumpName(name, stage) == "pre_" \o ToString(stage) \o "_" \o name \o ".ll"

GetISAString == isa

DumpFileName(name, stage) ==
    IF isMultiTargetCompilation
    THEN DumpName(name, stage) \o "_" \o GetISAString
    ELSE DumpName(name, stage)

\* how the file system answers: the file is written, the directory cannot
\* be created, or the file cannot be opened
DumpOutcomes == {"written", "no directory", "no file"}

\* what is printed, where, and for which call of the hook
Snapshot(to, path, name, stageName, stage) ==
    [to |-> to, path |-> path, name |-> name, stageName |-> stageName,
     stage |-> stage, module |-> module, markers |-> markers]

\* what the hook does with the streams and the error count
Dump(name, stage) ==
    IF ~IsDumped(stage)
    THEN UNCHANGED <<dumps, errors, diagnostics>>
    ELSE IF dumpFile /\ dumpFilePath # ""
    THEN \E outcome \in DumpOutcomes :
            IF outcome = "written"
            THEN /\ dumps' = Append(dumps, Snapshot("file", dumpFilePath,
                                                    DumpFileName(name, stage),
                                                    name, stage))
                 /\ UNCHANGED <<errors, diagnostics>>
            ELSE /\ errors < MaxErrors
                 /\ errors' = errors + 1
                 /\ diagnostics' = Append(diagnostics,
                        [text |-> IF outcome = "no directory"
                                     THEN "Error creating directory"
                                     ELSE "Error opening file",
                         name |-> dumpFilePath, parameter |-> -1])
                 /\ UNCHANGED dumps
    ELSE /\ dumps' = Append(dumps, Snapshot("stdout", "", "", name, stage))
         /\ UNCHANGED <<errors, diagnostics>>

\* a faulty variant: the module is cleaned up before it is printed
debugDumpModule_CleansUp(at, next, name) ==
    /\ pc = at
    /\ debug_num' = debug_num + 1
    /\ Call("debugDumpModule", next)
    /\ Dump(name, debug_num)
    /\ module' = IF IsDumped(debug_num) THEN lRemoveUnused(module, <<>>)
                                         ELSE module
    /\ UNCHANGED <<markers, globals, fatal, noLibrary, atAnchor,
                   dispatched, libraries, functions, symbolTable, returned,
                   config>>

\* the call debugDumpModule(module, name, debug_num++)
debugDumpModule(at, next, name) ==
    /\ pc = at
    /\ debug_num' = debug_num + 1
    /\ Call("debugDumpModule", next)
    /\ Dump(name, debug_num)
    /\ UNCHANGED <<module, markers, globals, fatal, noLibrary, atAnchor,
                   dispatched, libraries, functions, symbolTable, returned,
                   config>>

DumpStdlib == debugDumpModule("dump_stdlib", "common", "LinkStdlib")

(***************************************************************************)
(* lLinkCommonBuiltins.                                                    *)
(***************************************************************************)
commonBuiltins == {"__do_print", "__num_cores"}

\* present: the library has an IR module; linked: linkModules merged it
lLinkCommonBuiltins(present, linked) ==
    /\ (present /\ linked) \/ errors < MaxErrors
    /\ module' = lSetAsInternal(
                     IF present THEN lAddBitcodeToModule(CommonLib, module, linked)
                                ELSE module,
                     commonBuiltins)
    /\ errors' = IF present /\ linked THEN errors ELSE errors + 1
    /\ libraries' = IF present
                        THEN Held(libraries, "common",
                                  getLLVMModule(libraries["common"]))
                        ELSE libraries
    /\ Call("lLinkCommonBuiltins", "prune_common")
    /\ UNCHANGED <<markers, globals, fatal, noLibrary, atAnchor, debug_num,
                   dispatched, dumps, unit, config>>

LinkCommon ==
    /\ pc = "common"
    /\ \/ lLinkCommonBuiltins(TRUE, TRUE)
       \/ lLinkCommonBuiltins(TRUE, FALSE)
       \/ lLinkCommonBuiltins(FALSE, FALSE)
       \/ MissingLibrary("lLinkCommonBuiltins", "prune_common")

\* a faulty variant: the prune after the common-builtins link is left out
PruneCommon_Skipped ==
    /\ pc = "prune_common"
    /\ pc' = "dump_common"
    /\ UNCHANGED <<module, markers, globals, trace, errors, fatal, noLibrary,
                   atAnchor, debug_num, dispatched, libraries, dumps, unit, config>>

PruneCommon == Prune("prune_common", "dump_common")

DumpCommon == debugDumpModule("dump_common", "target", "LinkCommonBuiltins")

(***************************************************************************)
(* lLinkTargetBuiltins.                                                    *)
(***************************************************************************)
targetBCModule == TargetLib(targetVariant)

targetBuiltins == {n \in Names(targetBCModule) : ~lStartsWithLLVM(n)}

lLinkTargetBuiltins(linked) ==
    /\ linked \/ errors < MaxErrors
    /\ module' = lSetAsInternal(lAddBitcodeToModule(targetBCModule, module, linked),
                                targetBuiltins)
    /\ errors' = IF linked THEN errors ELSE errors + 1
    /\ libraries' = Held(libraries, "target",
                          [getLLVMModule(libraries["target"])
                              EXCEPT !.dataLayout = ModuleDataLayout])
    /\ Call("lLinkTargetBuiltins", "prune_target")
    /\ UNCHANGED <<markers, globals, fatal, noLibrary, atAnchor, debug_num,
                   dispatched, dumps, unit, config>>

LinkTarget ==
    /\ pc = "target"
    /\ \/ lLinkTargetBuiltins(TRUE)
       \/ lLinkTargetBuiltins(FALSE)
       \/ MissingLibrary("lLinkTargetBuiltins", "prune_target")
       \/ NullDereference("lLinkTargetBuiltins", "prune_target")

PruneTarget == Prune("prune_target", "dump_target")

DumpTarget == debugDumpModule("dump_target", "globals", "LinkTargetBuiltins")

(***************************************************************************)
(* lSetInternalLinkageGlobals and lCheckModuleIntrinsics.                  *)
(***************************************************************************)
internalGlobals == {"__fast_masked_vload", "__math_lib", "__memory_alignment"}

lSetInternalLinkageGlobals(G) ==
    {IF v.name \in internalGlobals THEN [v EXCEPT !.linkage = "internal"] ELSE v :
        v \in G}

SetGlobals ==
    /\ pc = "globals"
    /\ globals' = lSetInternalLinkageGlobals(globals)
    /\ Call("lSetInternalLinkageGlobals", "check")
    /\ UNCHANGED <<module, markers, errors, fatal, noLibrary, atAnchor, debug_num,
                   dispatched, libraries, dumps, unit, config>>

CheckIntrinsics ==
    /\ pc = "check"
    /\ Call("lCheckModuleIntrinsics",
            IF lCheckModuleIntrinsics(module) THEN "done" ELSE "aborted")
    /\ fatal' = IF lCheckModuleIntrinsics(module) THEN fatal ELSE "intrinsic"
    /\ UNCHANGED <<module, markers, globals, errors, noLibrary, atAnchor,
                   debug_num, dispatched, libraries, dumps, unit, config>>

(***************************************************************************)
(* LinkDispatcher, called by the driver before or after the composition.   *)
(***************************************************************************)
lLinkDispatcher(present, linked) ==
    /\ (present /\ linked) \/ errors < MaxErrors
    /\ module' = IF present
                    THEN lAddBitcodeToModule(DispatchLib,
                             lAddDeclarationsToModule(DispatchLib, module), linked)
                    ELSE module
    /\ errors' = IF ~present THEN errors + 2
                 ELSE IF ~linked THEN errors + 1 ELSE errors
    /\ dispatched' = TRUE
    /\ libraries' = IF present
                        THEN Held(libraries, "dispatch",
                                  [getLLVMModule(libraries["dispatch"])
                                      EXCEPT !.triple = ModuleTriple,
                                             !.dataLayout = ModuleDataLayout])
                        ELSE libraries
    /\ Call("LinkDispatcher", pc)
    /\ UNCHANGED <<markers, globals, fatal, noLibrary, atAnchor, debug_num,
                   dumps, unit, config>>

LinkDispatcher ==
    /\ pc \in {"begin", "done"}
    /\ ~dispatched
    /\ \/ lLinkDispatcher(TRUE, TRUE)
       \/ lLinkDispatcher(TRUE, FALSE)
       \/ lLinkDispatcher(FALSE, FALSE)
       \/ MissingLibrary("LinkDispatcher", pc)

Next ==
    \/ LinkStdlib
    \/ Anchor
    \/ PruneStdlib
    \/ Reclose
    \/ DumpStdlib
    \/ LinkCommon
    \/ PruneCommon
    \/ DumpCommon
    \/ LinkTarget
    \/ PruneTarget
    \/ DumpTarget
    \/ SetGlobals
    \/ CheckIntrinsics
    \/ LinkDispatcher

Spec == Init /\ [][Next]_vars

(***************************************************************************)
(* The composition under every debug configuration: the stages to dump,    *)
(* the stages switched off, and where the dump goes.                       *)
(***************************************************************************)
DumpStages == {0, 1, 2}

InitDump ==
    /\ includeStdlib \in BOOLEAN
    /\ isMultiTargetCompilation \in BOOLEAN
    /\ isa = IF isMultiTargetCompilation THEN "sse4" ELSE "avx2"
    /\ stdlibVariant = "declares_builtins"
    /\ targetVariant = "matching"
    /\ debug_stages \in SUBSET DumpStages
    /\ off_stages \in {{}, {0}, {1, 2}}
    /\ dumpFile \in BOOLEAN
    /\ dumpFilePath \in {"", "out"}
    /\ \E calls \in {{"f"}, {"__masked_load_32"}} :
            user = UserModule(calls, {}, TargetSuffix)
    /\ module = user
    /\ markers = <<>>
    /\ globals = UserGlobals
    /\ pc = "begin"
    /\ libraries = Registry
    /\ NothingCalled
    /\ NoUnit

SpecDump == InitDump /\ [][Next]_vars

(***************************************************************************)
(* The marker steps of the stdlib stage (anchor, prune, re-closure) on any *)
(* module: every group member and the persistent function absent, declared *)
(* or defined, an exported function that refers to some of them and to a   *)
(* global variable, a static function without a use that refers to one of  *)
(* them, and a marker that came in with the module or with the standard    *)
(* library, or none.                                                       *)
(***************************************************************************)
MemberNames == GroupNames \cup Range(persistentFuncs)

MemberKinds(n) ==
    IF n \in {"__gather32", "__terminate_now"}
    THEN {"absent", "defined"}
    ELSE {"absent", "declared", "defined"}

MemberKindsOf == {k \in [MemberNames -> {"absent", "declared", "defined"}] :
                     \A n \in MemberNames : k[n] \in MemberKinds(n)}

MembersOfKinds(k) ==
    {IF k[n] = "declared"
        THEN Decl(n, "stdlib", 0)
        ELSE [Def(n, "stdlib", {}) EXCEPT !.linkage = "internal"] :
        n \in {m \in MemberNames : k[m] # "absent"}}

\* the markers a module can come with: operands are functions or global
\* variables of the module
EntryMarkers(M) ==
    {<<>>, << <<"kernel">> >>, << <<"g_table">> >>, << <<"g_table", "kernel">> >>}
    \cup (IF Has(M, "__masked_load_32")
              THEN {<< <<"__masked_load_32">> >>} ELSE {})

InitMarker ==
    /\ \E k \in MemberKindsOf :
       \E calls \in CallSets({n \in MemberNames : k[n] # "absent"}, MaxCalls) :
       \E hcalls \in CallSets({n \in MemberNames : k[n] # "absent"}, 1) :
       \E refs \in SUBSET {"g_table"} :
            module = MembersOfKinds(k)
                        \cup {Def("kernel", "user", calls \cup refs),
                              [Def("helper", "user", hcalls)
                                  EXCEPT !.linkage = "internal"]}
    /\ markers \in EntryMarkers(module)
    /\ globals = UserGlobals \cup {[name |-> "g_table", linkage |-> "external"]}
    /\ pc = "anchor"
    /\ includeStdlib = TRUE
    /\ isMultiTargetCompilation = FALSE
    /\ isa = "avx2"
    /\ stdlibVariant = "calls_builtins"
    /\ targetVariant = "matching"
    /\ libraries = Registry
    /\ user = module
    /\ NothingCalled
    /\ NoDebugStages
    /\ NoUnit

NextMarker ==
    \/ Anchor
    \/ PruneStdlib
    \/ Reclose

SpecMarker == InitMarker /\ [][NextMarker]_vars

(***************************************************************************)
(* The composition on a user module that exports a function of its own    *)
(* besides the entry function, under a name no library has or under a      *)
(* name a library declares or defines.                                     *)
(***************************************************************************)
OwnNames == {"own", "__do_print", "__tgt_helper", "__pseudo_gather32"}

UserModuleWith(own, calls, sfx) ==
    {f \in UserModule(calls, {}, sfx) : f.name # own}
        \cup {Def(own, "user", {})}

InitOwn ==
    /\ includeStdlib \in BOOLEAN
    /\ isMultiTargetCompilation \in BOOLEAN
    /\ isa \in ISAVariants
    /\ isMultiTargetCompilation \/ isa = "avx2"
    /\ stdlibVariant \in StdlibVariants
    /\ targetVariant = "matching"
    /\ \E own \in OwnNames :
       \E calls \in CallSets(UserRefs, MaxCalls) :
            user = UserModuleWith(own, calls, TargetSuffix)
    /\ module = user
    /\ markers = <<>>
    /\ globals = UserGlobals
    /\ pc = "begin"
    /\ libraries = Registry
    /\ NothingCalled
    /\ NoDebugStages
    /\ NoUnit

SpecOwn == InitOwn /\ [][Next]_vars

(***************************************************************************)
(* lCheckModuleIntrinsics on its own: any module of declarations over a    *)
(* few names, inside and outside the x86 namespace, known and unknown to   *)
(* the backend, each with any number of parameters.                        *)
(***************************************************************************)
CheckNames ==
    {"llvm.x86.maskload", "llvm.x86.unknown", "llvm.sqrt", "llvm.floor",
     "x86.maskload"}

\* the number of parameters a name is declared with, 0 when it is absent
CheckParams == 0 .. 3

ModuleOfParams(np) ==
    {Decl(n, "target", np[n]) : n \in {m \in DOMAIN np : np[m] # 0}}

InitCheck ==
    /\ \E np \in [CheckNames -> CheckParams] : module = ModuleOfParams(np)
    /\ pc = "check"
    /\ markers = <<>>
    /\ globals = {}
    /\ includeStdlib = FALSE
    /\ isMultiTargetCompilation = FALSE
    /\ isa = "avx2"
    /\ stdlibVariant = "calls_builtins"
    /\ targetVariant = "matching"
    /\ libraries = Registry
    /\ user = module
    /\ NothingCalled
    /\ NoDebugStages
    /\ NoUnit

SpecCheck == InitCheck /\ [][CheckIntrinsics]_vars

(***************************************************************************)
(* lSetAsInternal on its own: any module over a few names, any name set.   *)
(* A name of the module is absent, declared, or defined with external or   *)
(* internal linkage.                                                       *)
(***************************************************************************)
SetNames == {"a", "b", "llvm.c"}

SetKinds == {"absent", "declared", "external", "internal"}

ModuleOfKinds(k) ==
    {[name |-> n, base |-> n, decl |-> (k[n] = "declared"),
      linkage |-> IF k[n] = "internal" THEN "internal" ELSE "external",
      origin |-> "user", callees |-> {}, nparams |-> 0] :
        n \in {m \in DOMAIN k : k[m] # "absent"}}

InitSetInternal ==
    /\ \E k \in [SetNames -> SetKinds] : module = ModuleOfKinds(k)
    /\ functions \in SUBSET (SetNames \cup {"z"})
    /\ pc = "lSetAsInternal"
    /\ markers = <<>>
    /\ globals = {}
    /\ includeStdlib = FALSE
    /\ isMultiTargetCompilation = FALSE
    /\ isa = "avx2"
    /\ stdlibVariant = "calls_builtins"
    /\ targetVariant = "matching"
    /\ libraries = Registry
    /\ user = module
    /\ NothingCalled
    /\ NoDebugStages
    /\ symbolTable = {}
    /\ returned = [func |-> "none", sym |-> "nullptr"]
    /\ diagnostics = <<>>

SetAsInternal ==
    /\ pc = "lSetAsInternal"
    /\ module' = lSetAsInternal(module, functions)
    /\ Call("lSetAsInternal", "returned")
    /\ UNCHANGED <<markers, globals, errors, fatal, noLibrary, atAnchor,
                   debug_num, dispatched, libraries, dumps, unit, config>>

SpecSetInternal == InitSetInternal /\ [][SetAsInternal]_vars

(***************************************************************************)
(* CreateISPCSymbolForLLVMIntrinsic on its own: two intrinsic declarations *)
(* of any type over a few LLVM types, called in any order, any number of   *)
(* times.                                                                  *)
(***************************************************************************)
\* the source-language type of an LLVM type, "nullptr" when there is none
lLLVMTypeToISPCType(t, intAsUnsigned) ==
    CASE t = "void"        -> "void"
      [] t = "i1"          -> "uniform bool"
      [] t = "i32"         -> IF intAsUnsigned THEN "uniform unsigned int32"
                                               ELSE "uniform int32"
      [] t = "<8 x float>" -> "varying float"
      [] t = "<8 x i32>"   -> IF intAsUnsigned THEN "varying unsigned int32"
                                               ELSE "varying int32"
      [] t = "float*"      -> "uniform float * uniform"
      [] OTHER             -> "nullptr"

ParamTypes == {"i32", "<8 x float>", "x86_mmx"}

ReturnTypes == ParamTypes \cup {"void"}

ParamLists == UNION {[1 .. n -> ParamTypes] : n \in 0 .. MaxParams}

IntrinsicDecl(n, ret, params) ==
    [returnType |-> ret, params |-> params] @@ Decl(n, "user", Len(params))

\* a faulty variant: the loop goes on after an offending parameter, the last
\* one is reported
FirstBadParam_Last(params) ==
    LET bad == {j \in 0 .. Len(params) - 1 :
                    lLLVMTypeToISPCType(params[j + 1], FALSE) = "nullptr"}
    IN  IF bad = {} THEN -1 ELSE CHOOSE j \in bad : \A k \in bad : k <= j

\* the index, from 0, of the first parameter without a source-language type;
\* -1 when every parameter has one
FirstBadParam(params) ==
    LET bad == {j \in 0 .. Len(params) - 1 :
                    lLLVMTypeToISPCType(params[j + 1], FALSE) = "nullptr"}
    IN  IF bad = {} THEN -1 ELSE CHOOSE j \in bad : \A k \in bad : j <= k

\* a faulty variant: the table is not asked, no symbol is ever found
LookupIntrinsics_None(table, func) == {}

LookupIntrinsics(table, func) == {sym \in table : sym.function = func.name}

AddIntrinsics(table, sym) == table \cup {sym}

\* new Symbol: an object of its own (id), no symbol of the table
Symbol(func) ==
    [id |-> Cardinality(symbolTable) + 1,
     name |-> func.name, kind |-> "Function", function |-> func.name,
     type |-> [returnType |-> lLLVMTypeToISPCType(func.returnType, FALSE),
               argTypes |-> [j \in DOMAIN func.params |->
                                lLLVMTypeToISPCType(func.params[j], FALSE)]]]

Returns(func, sym) ==
    returned' = [func |-> func.name, sym |-> sym]

CreateISPCSymbolForLLVMIntrinsic(func) ==
    IF LookupIntrinsics(symbolTable, func) # {}
    THEN /\ Returns(func, CHOOSE sym \in LookupIntrinsics(symbolTable, func) : TRUE)
         /\ UNCHANGED <<symbolTable, diagnostics, errors>>
    ELSE IF lLLVMTypeToISPCType(func.returnType, FALSE) = "nullptr"
    THEN /\ Len(diagnostics) < MaxDiagnostics
         /\ diagnostics' = Append(diagnostics,
                [text |-> "Return type not representable for Intrinsic",
                 name |-> func.name, parameter |-> -1])
         /\ errors' = errors + 1
         /\ Returns(func, "nullptr")
         /\ UNCHANGED symbolTable
    ELSE IF FirstBadParam(func.params) # -1
    THEN /\ Len(diagnostics) < MaxDiagnostics
         /\ diagnostics' = Append(diagnostics,
                [text |-> "Type of parameter not representable for Intrinsic",
                 name |-> func.name, parameter |-> FirstBadParam(func.params)])
         /\ errors' = errors + 1
         /\ Returns(func, "nullptr")
         /\ UNCHANGED symbolTable
    ELSE /\ symbolTable' = AddIntrinsics(symbolTable, Symbol(func))
         /\ Returns(func, Symbol(func))
         /\ UNCHANGED <<diagnostics, errors>>

CreateSymbol ==
    /\ pc = "symbols"
    /\ Len(trace) < MaxSymbolCalls
    /\ \E func \in module :
          /\ CreateISPCSymbolForLLVMIntrinsic(func)
          /\ trace' = Append(trace, func.name)
    /\ UNCHANGED <<pc, module, markers, globals, fatal, noLibrary,
                   atAnchor, debug_num, dispatched, libraries, dumps,
                   functions, config>>

InitSymbol ==
    /\ \E ret \in ReturnTypes, params \in ParamLists :
       \E g \in {<<"void", <<>> >>, <<"x86_mmx", <<"i32">> >>,
                  <<"i32", <<"x86_mmx">> >>} :
            module = {IntrinsicDecl("llvm.x86.f", ret, params),
                      IntrinsicDecl("llvm.x86.g", g[1], g[2])}
    /\ pc = "symbols"
    /\ markers = <<>>
    /\ globals = {}
    /\ includeStdlib = FALSE
    /\ isMultiTargetCompilation = FALSE
    /\ isa = "avx2"
    /\ stdlibVariant = "calls_builtins"
    /\ targetVariant = "matching"
    /\ libraries = Registry
    /\ user = module
    /\ NothingCalled
    /\ NoDebugStages
    /\ NoUnit

SpecSymbol == InitSymbol /\ [][CreateSymbol]_vars

(***************************************************************************)
(* Vocabulary of the properties.                                           *)
(***************************************************************************)
Group(i) == Range(persistentGroups[i])

\* a body of the set of functions M refers to a member of the group
ReferencedIn(M, i) == \E f \in M : ~f.decl /\ f.callees \cap Group(i) # {}

\* the calls of the composition, those of LinkDispatcher left out
Composition == SelectSeq(trace, LAMBDA l : l # "LinkDispatcher")

Ran(label) == \E k \in DOMAIN trace : trace[k] = label

LinkLabels == {"lLinkStdlib", "lLinkCommonBuiltins", "lLinkTargetBuiltins"}

FromLibrary(f) == f.origin \in {"stdlib", "common", "target", "dispatch"}

(***************************************************************************)
(* C1. Group atomicity (keep), as claimed: when the user program refers to *)
(* a member of a persistent group, every member of the group is in the     *)
(* module once the composition has finished.                               *)
(***************************************************************************)
C1_AllMembersPresent ==
    pc = "done" =>
        \A i \in DOMAIN persistentGroups :
            ReferencedIn(user, i) => Group(i) \subseteq Names(module)

(***************************************************************************)
(* C1, amended. When a user function that is still in the module after the *)
(* composition refers to a member of a persistent group, every member of   *)
(* the group that was in the module (declared or defined) when the anchor  *)
(* step ran is in the module after the composition.                        *)
(***************************************************************************)
C1_AnchoredMembersKept ==
    pc = "done" =>
        \A i \in DOMAIN persistentGroups :
            ReferencedIn({f \in module : f.origin = "user"}, i)
                => (Group(i) \cap atAnchor) \subseteq Names(module)

\* the exported function refers to __masked_load_32 alone, and
\* __masked_store_32 is kept for no other reason than the marker
C1_Witness ==
    /\ pc = "done"
    /\ includeStdlib
    /\ \E f \in module : f.origin = "user" /\ ~f.decl /\ f.linkage = "external"
                          /\ f.callees = {"__masked_load_32"}
    /\ "__masked_store_32" \in atAnchor
    /\ Defines(module, "__masked_store_32")
    /\ getNumUses(module, markers, "__masked_store_32") = 1
    /\ "__masked_store_32" \in MarkerMembers(markers)

(***************************************************************************)
(* C2. Group atomicity (drop): with includeStdlib, a persistent group none *)
(* of whose members is referred to by a function of the composed module    *)
(* has no member in the module after the final pruning.                    *)
(***************************************************************************)
C2_UnreferencedGroupDropped ==
    (pc = "done" /\ includeStdlib) =>
        \A i \in DOMAIN persistentGroups :
            ~ReferencedIn(module, i) => Group(i) \cap Names(module) = {}

\* a group that was in the module at the anchor step, referred to by the
\* unused static function only, is gone at the end
C2_Witness ==
    /\ pc = "done"
    /\ includeStdlib
    /\ \E f \in user : f.name = "helper" /\ "__masked_load_32" \in f.callees
    /\ Group(1) \subseteq atAnchor
    /\ Group(1) \cap Names(module) = {}
    /\ ~ReferencedIn(module, 1)

(***************************************************************************)
(* C3. Idempotent pruning: in the state the stdlib stage ends in (link,    *)
(* anchor, prune, re-closure, prune), a second run of the re-closure step  *)
(* removes no function and leaves the members of the marker as they are.   *)
(* Reading an empty marker array as a ConstantArray is undefined: the run  *)
(* then either ends the process, changing nothing, or reads no operand.    *)
(***************************************************************************)
SecondRunOutcomes ==
    {lRemoveUnusedPersistentFunctions(module, markers)}
    \cup (IF markers # <<>> /\ Head(markers) = <<>>
             THEN {[module |-> module, markers |-> markers]} ELSE {})

C3_IdempotentPruning ==
    pc = "dump_stdlib" =>
        \A r \in SecondRunOutcomes :
            /\ r.module = module
            /\ MarkerMembers(r.markers) = MarkerMembers(markers)

\* the first run dropped a group that the anchor step had put in the
\* marker, and kept another one
C3_Witness ==
    /\ pc = "dump_stdlib"
    /\ markers # <<>>
    /\ Head(markers) # <<>>
    /\ \E n \in GroupNames : n \in atAnchor /\ ~Has(module, n)
    /\ \E n \in GroupNames : n \in MarkerMembers(markers)

(***************************************************************************)
(* C4. Visibility containment: after the composition every function of    *)
(* the module that the target-builtins library defined, and whose name     *)
(* does not start with "llvm.", has internal linkage.                      *)
(***************************************************************************)
C4_VisibilityContainment ==
    pc = "done" =>
        \A f \in module :
            (f.origin = "target" /\ ~f.decl /\ ~StartsWith(f.name, "llvm."))
                => f.linkage = "internal"

C4_Witness ==
    /\ pc = "done"
    /\ \E f \in module : /\ f.origin = "target"
                          /\ ~f.decl
                          /\ f.name = "__tgt_helper"
                          /\ f.linkage = "internal"

(***************************************************************************)
(* C5. Stdlib-optional composition: without includeStdlib the standard     *)
(* library is never linked and the re-closure never runs, the anchor step, *)
(* the common-builtins link, the target-builtins link and a prune after    *)
(* each of the two links still run, and no function of the composed module *)
(* comes from the standard library.                                        *)
(***************************************************************************)
C5_StdlibOptional ==
    (~includeStdlib) =>
        /\ ~Ran("lLinkStdlib")
        /\ ~Ran("lRemoveUnusedPersistentFunctions")
        /\ \A f \in module : f.origin # "stdlib"
        /\ pc = "done" =>
              Composition = <<"lAddPersistentToLLVMUsed",
                              "lLinkCommonBuiltins", "lRemoveUnused", "debugDumpModule",
                              "lLinkTargetBuiltins", "lRemoveUnused", "debugDumpModule",
                              "lSetInternalLinkageGlobals", "lCheckModuleIntrinsics">>

\* a composition without the standard library that linked a target builtin
\* and left the standard-library function the user refers to undefined
C5_Witness ==
    /\ pc = "done"
    /\ ~includeStdlib
    /\ Declares(module, "f")
    /\ \E f \in module : f.origin = "target" /\ ~f.decl

(***************************************************************************)
(* C6. Stage ordering: the stdlib link comes before the common-builtins    *)
(* link, which comes before the target-builtins link; a prune runs after   *)
(* each link and before the next; the intrinsic check runs once, as the    *)
(* last call, after the last prune and the demotion of the globals.        *)
(***************************************************************************)
Before(a, b) ==
    \A i, j \in DOMAIN Composition :
        (Composition[i] = a /\ Composition[j] = b) => i < j

PruneBetweenLinks ==
    \A i, j \in DOMAIN Composition :
        (i < j /\ Composition[i] \in LinkLabels /\ Composition[j] \in LinkLabels)
            => \E k \in (i + 1) .. (j - 1) : Composition[k] = "lRemoveUnused"

C6_StageOrdering ==
    /\ Before("lLinkStdlib", "lLinkCommonBuiltins")
    /\ Before("lLinkCommonBuiltins", "lLinkTargetBuiltins")
    /\ Before("lLinkStdlib", "lLinkTargetBuiltins")
    /\ PruneBetweenLinks
    /\ Before("lRemoveUnused", "lCheckModuleIntrinsics")
    /\ Before("lSetInternalLinkageGlobals", "lCheckModuleIntrinsics")
    /\ Cardinality({k \in DOMAIN Composition :
                        Composition[k] = "lCheckModuleIntrinsics"}) <= 1
    /\ pc = "done" =>
          /\ Composition[Len(Composition)] = "lCheckModuleIntrinsics"
          /\ Ran("lSetInternalLinkageGlobals")
          /\ includeStdlib => Ran("lLinkStdlib")
          /\ Ran("lLinkCommonBuiltins") /\ Ran("lLinkTargetBuiltins")
          /\ \A i \in DOMAIN Composition :
                Composition[i] \in LinkLabels
                    => \E k \in (i + 1) .. Len(Composition) :
                          Composition[k] = "lRemoveUnused"

C6_Witness ==
    /\ pc = "done"
    /\ includeStdlib
    /\ Len(Composition) = 13
    /\ Composition[1] = "lLinkStdlib"
    /\ Composition[13] = "lCheckModuleIntrinsics"

(***************************************************************************)
(* C7. Link failure is fatal, as claimed: once the merge of a library has  *)
(* reported an error (a null library module, or linkModules failing), the  *)
(* process is over and no later step runs.                                 *)
(***************************************************************************)
C7_LinkFailureIsFatal == errors > 0 => pc = "aborted"

(***************************************************************************)
(* C8. Missing library is fatal: a stage that finds no library in the      *)
(* registry ends the process and leaves the module, the marker and the     *)
(* globals as they were, and no step is taken after it.                    *)
(***************************************************************************)
C8_MissingLibraryIsFatal ==
    [][/\ noLibrary = "none"
       /\ (noLibrary' # "none")
            => /\ pc' = "aborted"
               /\ module' = module
               /\ markers' = markers
               /\ globals' = globals]_vars

\* the target builtins are missing after the earlier stages changed the module
C8_Witness ==
    /\ pc = "aborted"
    /\ noLibrary = "lLinkTargetBuiltins"
    /\ trace[Len(trace)] = "lLinkTargetBuiltins"
    /\ module # user

(***************************************************************************)
(* C9. Intrinsic fidelity: a composition never completes with a function   *)
(* named llvm.x86.* in the module that the backend does not know or whose  *)
(* declared type differs from the backend's; the check ends the process    *)
(* for such a module.                                                      *)
(***************************************************************************)
Mismatched(f) ==
    /\ StartsWith(f.name, "llvm.x86.")
    /\ \/ getIntrinsicID(f.name) = 0
       \/ f.nparams # IntrinsicGetType(getIntrinsicID(f.name))

Renamed(f) == f.name = f.base \o GetTargetSuffix(isa)

Unrenamed(f) == f.name = f.base

C10_PerVariantLibrariesRenamed ==
    \A f \in {h \in module : h.origin \in {"stdlib", "target"}} :
        IF isMultiTargetCompilation /\ ~f.decl /\ ~StartsWith(f.name, "llvm.")
        THEN Renamed(f) ELSE Unrenamed(f)

(***************************************************************************)
(* C10, amended. In a multi-target compilation every function that the     *)
(* standard library defines under a name outside llvm.* carries the suffix *)
(* of the variant, and the suffixes of two variants differ, so that the    *)
(* definitions of one standard-library function for two variants have two  *)
(* names; declarations, llvm.* names and every function of the target      *)
(* builtins keep their name; in a single-target compilation no library     *)
(* function is renamed.                                                    *)
(***************************************************************************)
C10_StdlibRenamed ==
    /\ \A f \in {h \in module : FromLibrary(h)} :
          IF /\ isMultiTargetCompilation
             /\ f.origin = "stdlib"
             /\ ~f.decl
             /\ ~StartsWith(f.name, "llvm.")
          THEN Renamed(f) ELSE Unrenamed(f)
    /\ \A v, w \in ISAVariants :
          v # w => \A f \in StdlibLib(stdlibVariant) :
                      f.name \o GetTargetSuffix(v) # f.name \o GetTargetSuffix(w)

\* a standard-library function under its suffixed name beside a target
\* builtin under its plain name
C10_Witness ==
    /\ isMultiTargetCompilation
    /\ pc = "done"
    /\ \E f \in module : /\ f.origin = "stdlib" /\ ~f.decl
                          /\ f.base = "f" /\ f.name = "f" \o GetTargetSuffix(isa)
    /\ \E f \in module : /\ f.origin = "target" /\ ~f.decl
                          /\ f.name = "__masked_store_32"

(***************************************************************************)
(* C11. lSetAsInternal sets the linkage to internal for exactly the        *)
(* functions of the module that have a body and whose name is in the name  *)
(* set; every other function keeps its linkage, a name of the set that is  *)
(* not in the module has no effect, and no function is added, removed or   *)
(* renamed.                                                                *)
(***************************************************************************)
C11_SetInternalFrame ==
    [][pc = "lSetAsInternal" =>
        /\ Names(module') = Names(module)
        /\ Cardinality(module') = Cardinality(module)
        /\ \A f \in module : \E g \in module' :
              /\ g.name = f.name
              /\ g.decl = f.decl
              /\ g.callees = f.callees
              /\ g.linkage = IF ~f.decl /\ f.name \in functions
                                THEN "internal" ELSE f.linkage]_vars

\* a definition and a declaration of the set, a definition outside the set,
\* and a name of the set that the module does not have
C11_Witness ==
    /\ pc = "returned"
    /\ functions = {"a", "b", "z"}
    /\ \E f \in module : f.name = "a" /\ ~f.decl /\ f.linkage = "internal"
    /\ \E f \in module : f.name = "b" /\ f.decl /\ f.linkage = "external"
    /\ \E f \in module : f.name = "llvm.c" /\ ~f.decl /\ f.linkage = "external"
    /\ \E f \in user : f.name = "a" /\ ~f.decl /\ f.linkage = "external"

C13_LinkDispatcherFrame ==
    [][(~dispatched /\ dispatched') =>
        /\ \A f \in module : \E g \in module' :
              g.name = f.name /\ g.linkage = f.linkage
        /\ markers' = markers
        /\ pc' = pc
        /\ (errors' < errors + 2) => Names(DispatchLib) \subseteq Names(module')]_vars

\* the dispatcher linked into a composed module that holds a marker and
\* functions with internal linkage
C13_Witness ==
    /\ dispatched
    /\ pc = "done"
    /\ trace[Len(trace)] = "LinkDispatcher"
    /\ markers # <<>>
    /\ \E f \in module : f.origin = "target" /\ f.linkage = "internal"
    /\ Defines(module, "__set_system_isa")
    /\ Defines(module, "__get_system_isa")
    /\ Declares(module, "abort")

(***************************************************************************)
(* C14. User-facing diagnostic: a call of CreateISPCSymbolForLLVMIntrinsic *)
(* for a function that has no symbol yet, and whose return type or one of  *)
(* whose parameter types has no source-language type, reports one error    *)
(* that names the function and, when the return type is fine, the index of *)
(* the first offending parameter; it returns no symbol, leaves the symbol  *)
(* table as it is and does not end the process.  When every type has a     *)
(* source-language type the call adds one symbol, for that function, and   *)
(* returns it, and reports nothing.                                        *)
(***************************************************************************)
Representable(t) == lLLVMTypeToISPCType(t, FALSE) # "nullptr"

Offending(func) ==
    {j \in 0 .. Len(func.params) - 1 : ~Representable(func.params[j + 1])}

C14_UserFacingDiagnostic ==
    [][\A func \in module :
        (returned'.func = func.name /\ LookupIntrinsics(symbolTable, func) = {})
        => IF Representable(func.returnType) /\ Offending(func) = {}
           THEN /\ returned'.sym \notin symbolTable
                /\ symbolTable' = symbolTable \cup {returned'.sym}
                /\ returned'.sym.function = func.name
                /\ returned'.sym.name = func.name
                /\ diagnostics' = diagnostics
           ELSE /\ returned'.sym = "nullptr"
                /\ symbolTable' = symbolTable
                /\ Len(diagnostics') = Len(diagnostics) + 1
                /\ SubSeq(diagnostics', 1, Len(diagnostics)) = diagnostics
                /\ diagnostics'[Len(diagnostics')].name = func.name
                /\ Representable(func.returnType) =>
                      /\ diagnostics'[Len(diagnostics')].parameter \in Offending(func)
                      /\ \A j \in Offending(func) :
                            diagnostics'[Len(diagnostics')].parameter <= j
                /\ pc' = pc
                /\ fatal' = "none"]_vars

\* both parameters of llvm.x86.f offend and the first is reported, after a
\* symbol was made for llvm.x86.g
C14_Witness ==
    /\ pc = "symbols"
    /\ \E func \in module :
          /\ func.name = "llvm.x86.f"
          /\ Representable(func.returnType)
          /\ Offending(func) = {0, 1}
    /\ returned = [func |-> "llvm.x86.f", sym |-> "nullptr"]
    /\ diagnostics # <<>>
    /\ diagnostics[Len(diagnostics)].name = "llvm.x86.f"
    /\ diagnostics[Len(diagnostics)].parameter = 0
    /\ \E sym \in symbolTable : sym.function = "llvm.x86.g"

(***************************************************************************)
(* C15. The dump hook does not influence the composition: a call of        *)
(* debugDumpModule leaves the module, the markers and the globals as they  *)
(* are and goes on to the same next call whether or not the stage is       *)
(* dumped, to a file or to the standard output, with or without an error   *)
(* of the file system; and the module a composition ends with, when every  *)
(* library was merged, is the one LinkStandardLibraries yields with the    *)
(* calls of the hook left out, under every debug configuration.            *)
(***************************************************************************)
\* LinkStandardLibraries with every merge succeeding and no call of the hook
WithoutHook ==
    LET linked == IF includeStdlib
                  THEN lSetAsInternal(
                           lAddBitcodeToModule(stdlibBCModule, user, TRUE),
                           Names(stdlibBCModule))
                  ELSE user
        anchored == lAddPersistentToLLVMUsed(linked, <<>>)
        stdlib == IF includeStdlib
                  THEN lRemoveUnusedPersistentFunctions(
                           lRemoveUnused(linked, anchored), anchored)
                  ELSE [module |-> linked, markers |-> anchored]
        common == lRemoveUnused(
                      lSetAsInternal(
                          lAddBitcodeToModule(CommonLib, stdlib.module, TRUE),
                          commonBuiltins),
                      stdlib.markers)
        target == lRemoveUnused(
                      lSetAsInternal(
                          lAddBitcodeToModule(targetBCModule, common, TRUE),
                          targetBuiltins),
                      stdlib.markers)
    IN  [module |-> target, markers |-> stdlib.markers]

HookCalled == trace' = Append(trace, "debugDumpModule")

C15_HookLeavesModule ==
    [][/\ HookCalled =>
            /\ module' = module
            /\ markers' = markers
            /\ globals' = globals
            /\ debug_num' = debug_num + 1
            /\ pc' = CASE pc = "dump_stdlib" -> "common"
                       [] pc = "dump_common" -> "target"
                       [] pc = "dump_target" -> "globals"
       /\ (pc' = "done" /\ ~dispatched' /\ errors' = Len(diagnostics')) =>
            /\ module' = WithoutHook.module
            /\ markers' = WithoutHook.markers]_vars

\* every stage was dumped to a file, the last dump failed, and the
\* composition came to its end
C15_Witness ==
    /\ pc = "done"
    /\ ~dispatched
    /\ debug_stages = DumpStages
    /\ off_stages = {}
    /\ Len(dumps) = 2
    /\ dumps[1].to = "file"
    /\ dumps[1].module # dumps[2].module
    /\ errors = 1
    /\ Len(diagnostics) = 1
    /\ module = WithoutHook.module

(***************************************************************************)
(* C16. The marker is rebuilt wholesale, as claimed: once the anchor step  *)
(* has run, and again once the re-closure step has run, the module holds   *)
(* at most one preservation marker, and the marker holds the members the   *)
(* step computed and no others: members of persistent groups and           *)
(* persistent functions.  A marker that was there on entry is gone, and    *)
(* so are its members unless they were computed again.                     *)
(***************************************************************************)
C16_MarkerRebuiltWholesale ==
    pc \in {"prune_stdlib", "reclose", "dump_stdlib"} =>
        /\ Len(markers) <= 1
        /\ MarkerMembers(markers) \subseteq MemberNames

(***************************************************************************)
(* C17. Anchor phase content, as claimed: the marker the anchor step       *)
(* builds holds every member of every persistent group of which a member   *)
(* is in the module with at least one use, holds no member of any other    *)
(* group, and holds every persistent function.                             *)
(***************************************************************************)
\* a member of the group is in the module and has a use
GroupInUse(i) ==
    \E n \in Group(i) : Has(module, n) /\ getNumUses(module, markers, n) > 0

AnchorStep == trace' = Append(trace, "lAddPersistentToLLVMUsed")

\* the members of the marker the step has built
Built == Range(markers'[Len(markers')])

C17_AnchorHoldsAllMembers ==
    [][(AnchorStep /\ markers' # markers) =>
        /\ \A i \in DOMAIN persistentGroups :
              IF GroupInUse(i) THEN Group(i) \subseteq Built
                               ELSE Group(i) \cap Built = {}
        /\ Range(persistentFuncs) \subseteq Built]_vars

(***************************************************************************)
(* C17, amended. The marker the anchor step builds holds every member,     *)
(* that is in the module, of every persistent group of which a member is   *)
(* in the module with at least one use, every persistent function that is  *)
(* in the module, and nothing else; a name that is not in the module is    *)
(* left out, and when nothing is left to hold no marker is built.  The     *)
(* marker is added to the module and no other marker changes.              *)
(***************************************************************************)
AnchorMembers ==
    (UNION {Group(i) : i \in {j \in DOMAIN persistentGroups : GroupInUse(j)}}
        \cup Range(persistentFuncs)) \cap Names(module)

C17_AnchorHoldsPresentMembers ==
    [][AnchorStep =>
        IF AnchorMembers = {}
        THEN markers' = markers
        ELSE /\ Len(markers') = Len(markers) + 1
             /\ SubSeq(markers', 1, Len(markers)) = markers
             /\ Built = AnchorMembers]_vars

\* a group in use through a declared member whose other member is not in
\* the module, a group that is in the module without a use, and the
\* persistent function
C17_Witness ==
    /\ pc = "prune_stdlib"
    /\ markers # <<>>
    /\ "__masked_load_32" \in atAnchor
    /\ "__masked_store_32" \notin atAnchor
    /\ "__gather32" \in atAnchor
    /\ MarkerMembers(markers) = {"__masked_load_32", "__terminate_now"}

(***************************************************************************)
(* C18. Re-closure content, as claimed: when a marker exists, the marker   *)
(* the re-closure step rebuilds holds exactly the members of the           *)
(* persistent groups of which a member was in the old marker with more     *)
(* than one use, and all persistent functions; the module is pruned with   *)
(* the rebuilt marker in place.                                            *)
(***************************************************************************)
RecloseStep ==
    /\ trace' = Append(trace, "lRemoveUnusedPersistentFunctions")
    /\ pc' # "aborted"
    /\ markers # <<>>

\* a member of the group is in the old marker with a use besides the marker's
GroupStillUsed(i) ==
    \E n \in Group(i) \cap Range(Head(markers)) :
        getNumUses(module, markers, n) > 1

Rebuilt == Range(Head(markers'))

C18_RebuiltHoldsAllMembers ==
    [][RecloseStep =>
        /\ Rebuilt = UNION {Group(i) : i \in {j \in DOMAIN persistentGroups :
                                                 GroupStillUsed(j)}}
                        \cup Range(persistentFuncs)
        /\ module' = lRemoveUnused(module, markers')]_vars

(***************************************************************************)
(* C18, amended. When a marker exists, the marker the re-closure step      *)
(* rebuilds holds exactly the members, that are in the module, of the      *)
(* persistent groups of which a member was in the old marker with more     *)
(* than one use, and the persistent functions that are in the module; it   *)
(* takes the place of the old marker, and the module is pruned with it in  *)
(* place.                                                                  *)
(***************************************************************************)
C18_RebuiltHoldsPresentMembers ==
    [][RecloseStep =>
        /\ Rebuilt = (UNION {Group(i) : i \in {j \in DOMAIN persistentGroups :
                                                  GroupStillUsed(j)}}
                         \cup Range(persistentFuncs)) \cap Names(module)
        /\ Tail(markers') = Tail(markers)
        /\ module' = lRemoveUnused(module, markers')]_vars

\* the group the static function alone referred to is out of the marker
\* and out of the module, the group the exported function refers to is
\* kept without its member that is not in the module
C18_Witness ==
    /\ pc = "dump_stdlib"
    /\ Len(markers) = 1
    /\ {"__pseudo_gather32", "__gather32"} \subseteq atAnchor
    /\ {"__pseudo_gather32", "__gather32"} \cap Names(module) = {}
    /\ "__masked_store_32" \notin atAnchor
    /\ "__terminate_now" \in atAnchor
    /\ MarkerMembers(markers) = {"__masked_load_32", "__terminate_now"}

(***************************************************************************)
(* C19. Re-closure without a marker: when the module has no preservation   *)
(* marker as lRemoveUnusedPersistentFunctions is called, the call changes  *)
(* nothing: the module keeps every function, no marker is created, and     *)
(* the stage goes on.                                                      *)
(***************************************************************************)
C19_NoMarkerNoOp ==
    [][(pc = "reclose" /\ markers = <<>>) =>
        /\ module' = module
        /\ markers' = <<>>
        /\ globals' = globals
        /\ fatal' = fatal
        /\ errors' = errors
        /\ pc' = "dump_stdlib"]_vars

\* the step was taken on a module without a marker: the one group member
\* it came with had no use, so the anchor step built nothing
C19_Witness ==
    /\ pc = "dump_stdlib"
    /\ trace # <<>>
    /\ trace[Len(trace)] = "lRemoveUnusedPersistentFunctions"
    /\ markers = <<>>
    /\ atAnchor = {"kernel", "helper", "__masked_load_32"}
    /\ Names(module) = {"kernel"}

(***************************************************************************)
(* C20. Marker operand that is no function: in the re-closure step, when   *)
(* an operand of the existing marker is not a function, compilation        *)
(* aborts, whatever the number of uses of the operand; the step does not   *)
(* complete after reading such an operand.                                 *)
(***************************************************************************)
OperandsNoFunction == {n \in Range(Head(markers)) : ~Has(module, n)}

C20_OperandNoFunctionAborts ==
    [][(pc = "reclose" /\ markers # <<>> /\ OperandsNoFunction # {}) =>
        /\ pc' = "aborted"
        /\ fatal' # "none"]_vars

(***************************************************************************)
(* C21. Checker scope: lCheckModuleIntrinsics looks only at the functions  *)
(* the backend takes for intrinsics whose name starts with "llvm.x86.":    *)
(* when it fails, a function of that namespace is unknown to the backend   *)
(* or has another type than the backend's, and no function outside the     *)
(* namespace makes it fail, whatever its declared type; it changes         *)
(* nothing in the module.                                                  *)
(***************************************************************************)
InNamespace(f) == isIntrinsic(f) /\ StartsWith(f.name, "llvm.x86.")

Faulty(f) ==
    \/ getIntrinsicID(f.name) = 0
    \/ f.nparams # IntrinsicGetType(getIntrinsicID(f.name))

C21_CheckerScope ==
    [][pc = "check" =>
        /\ module' = module
        /\ markers' = markers
        /\ globals' = globals
        /\ pc' \in {"done", "aborted"}
        /\ pc' = "aborted" => \E f \in module : InNamespace(f) /\ Faulty(f)
        /\ (fatal' # fatal) = (pc' = "aborted")]_vars

\* the checker passed a module in which every function outside the
\* namespace is unknown to the backend or has another type than the
\* backend's, beside a function of the namespace that is in order
C21_Witness ==
    /\ pc = "done"
    /\ trace = <<"lCheckModuleIntrinsics">>
    /\ \E f \in module : f.name = "llvm.x86.maskload"
    /\ \E f \in module : f.name = "llvm.sqrt" /\ f.nparams = 3
    /\ \E f \in module : f.name = "llvm.floor"
    /\ \E f \in module : f.name = "x86.maskload" /\ f.nparams = 1

(***************************************************************************)
(* C22. Dump naming and gating, as claimed: a stage is dumped only if its  *)
(* index is among the stages to dump and not among the disabled ones, and  *)
(* then it is dumped unless the file system fails; no stage is dumped      *)
(* twice; a snapshot written to a directory is named                       *)
(* pre_<stageIndex>_<stageName>.ll in a single-target compilation and      *)
(* pre_<stageIndex>_<stageName>_<isaVariant>.ll in a multi-target          *)
(* compilation, the ISA variant before the extension.                      *)
(***************************************************************************)
DumpExtension == ".ll"

ClaimedFileName(d) ==
    "pre_" \o ToString(d.stage) \o "_" \o d.stageName
        \o (IF isMultiTargetCompilation THEN "_" \o isa ELSE "")
        \o DumpExtension

DumpGating ==
    /\ \A k \in DOMAIN dumps :
            dumps[k].stage \in debug_stages \ off_stages
    /\ \A i \in 0 .. debug_num - 1 :
            (i \in debug_stages \ off_stages /\ diagnostics = <<>>)
                => \E k \in DOMAIN dumps : dumps[k].stage = i
    /\ \A k, l \in DOMAIN dumps : dumps[k].stage = dumps[l].stage => k = l

C22_DumpNamingAndGating ==
    /\ DumpGating
    /\ \A k \in DOMAIN dumps :
            dumps[k].to = "file" => dumps[k].name = ClaimedFileName(dumps[k])

(***************************************************************************)
(* C23. Only definitions that come from a library are demoted: a function  *)
(* the user program defines with external linkage is in the module with    *)
(* external linkage throughout and after the composition, whatever the     *)
(* libraries declare or define under its name.                             *)
(***************************************************************************)
Exported(M) == {f \in M : ~f.decl /\ f.linkage = "external"}

C23_UserDefinitionsStayExternal ==
    \A f \in Exported(user) :
        \E g \in Exported(module) : g.name = f.name /\ g.origin = "user"

(***************************************************************************)
(* C24. Marker members, as claimed: in every state of a composition a      *)
(* preservation marker in the module has at least one member, and every    *)
(* member is a function that is in the module; this holds after the anchor *)
(* step, which creates no marker for an empty member set, and after the    *)
(* re-closure step has rebuilt the marker.                                 *)
(***************************************************************************)
C24_MarkerHasPresentMembers ==
    \A i \in DOMAIN markers :
        /\ markers[i] # <<>>
        /\ Range(markers[i]) \subseteq Names(module)

(***************************************************************************)
(* C25. CreateISPCSymbolForLLVMIntrinsic is idempotent per function: after *)
(* any sequence of calls the symbol table has at most one symbol for each  *)
(* function; a call for a function that has a symbol returns that symbol   *)
(* and adds and reports nothing; a call that fails adds nothing, and a     *)
(* call for a function for which a call has failed fails again with the    *)
(* same report.                                                            *)
(***************************************************************************)
AtMostOneSymbol(table) ==
    \A s1, s2 \in table : s1.function = s2.function => s1 = s2

Reported(func) == {k \in DOMAIN diagnostics : diagnostics[k].name = func.name}

C25_IdempotentPerFunction ==
    [][/\ AtMostOneSymbol(symbolTable')
       /\ \A func \in module :
            (trace' = Append(trace, func.name)) =>
                /\ returned'.func = func.name
                /\ LookupIntrinsics(symbolTable, func) # {} =>
                      /\ returned'.sym \in symbolTable
                      /\ returned'.sym.function = func.name
                      /\ symbolTable' = symbolTable
                      /\ diagnostics' = diagnostics
                /\ diagnostics' # diagnostics =>
                      /\ returned'.sym = "nullptr"
                      /\ symbolTable' = symbolTable
                /\ Reported(func) # {} =>
                      /\ returned'.sym = "nullptr"
                      /\ Len(diagnostics') = Len(diagnostics) + 1
                      /\ \A k \in Reported(func) :
                            diagnostics'[Len(diagnostics')] = diagnostics[k]]_vars

\* llvm.x86.g got its symbol with the first call and the same symbol with
\* the third; the call between them failed for llvm.x86.f
C25_Witness ==
    /\ trace = <<"llvm.x86.g", "llvm.x86.f", "llvm.x86.g">>
    /\ Len(diagnostics) = 1
    /\ diagnostics[1].name = "llvm.x86.f"
    /\ Cardinality(symbolTable) = 1
    /\ returned.func = "llvm.x86.g"
    /\ returned.sym \in symbolTable

\* the call for llvm.x86.f failed twice with the same report
C25_WitnessFailsAgain ==
    /\ trace = <<"llvm.x86.f", "llvm.x86.g", "llvm.x86.f">>
    /\ Len(diagnostics) = 2
    /\ diagnostics[1] = diagnostics[2]
    /\ Cardinality(symbolTable) = 1
    /\ returned = [func |-> "llvm.x86.f", sym |-> "nullptr"]

====
